---- MODULE Spec2Model ----
(***************************************************************************)
(* A model of Squire's two plugin primitives:                              *)
(*   - utils/tokens.py: TokenMixinBase, UrlTokenMixin, SessionTokenMixin   *)
(*   - utils/viewcollectives.py: ViewCollectiveRegistry and its configs    *)
(* and of the code built on them. The specifications of the module:        *)
(* SpecDecode (get_url_object as a function of the encoded id), SpecToken  *)
(* (the dispatch state machine of the token mixins over sessions, objects  *)
(* and time), SpecConfigs and SpecThreads (the lazily built config list,   *)
(* read by one thread and by two), SpecViews (views of a collective),      *)
(* SpecCloud (dispatch of the Nextcloud views), SpecMigration (data        *)
(* migration 0023 of activity_calendar) and SpecRedirect (the redirect URL *)
(* UrlTokenMixin builds).                                                  *)
(***************************************************************************)
EXTENDS Integers, Sequences, FiniteSets, TLC

VARIABLES
    \* ---- get_url_object on its own (SpecDecode)
    uidb64,        \* the encoded id handed to get_url_object
    uid_outcome,   \* what the call did: pending, or returned/raised with the inner exception
    \* ---- token mixins (SpecToken)
    now,           \* the clock the token generator reads
    ostate,        \* per object: the value of its validity-affecting fields
    since,         \* per object: the time at which its fields took that value
    session,       \* per session: the entry under session_token_name
    request,       \* the request being handled, if any
    response,      \* the response of the dispatch handled last
    validlink,     \* self.validlink of that view instance
    url_object,    \* self.url_object of that view instance
    hist,          \* history: per session and object, whether a token for it was accepted and
                   \* its fields are unchanged since (fresh), and whether a field of it
                   \* changed after a token for it was stored (changed)
    accepted,      \* history: per session, the token UrlTokenMixin.dispatch stored last,
                   \* unless delete_token has removed it since
    \* ---- view collective registry (SpecConfigs, SpecThreads)
    modules,       \* per installed app: what importing '<app>.<folder_name>.config' gives
    setting,       \* the deployment setting an overridden is_enabled() reads
    _configs,      \* registry._configs
    built,         \* number of lists _get_configs has returned
    raised,        \* the exception the last registry call let out, or "none"
    applicable,    \* the last get_applicable_configs call: list read, request, result
    pc,            \* per request thread: where it is inside the configs property
    returned,      \* history: which lists the configs property has returned
    \* ---- views of a collective (SpecViews)
    view,          \* the view instance as_view() constructed last, if any
    call,          \* the last call on a view or on the registry's get_urls and what it gave
    \* ---- Nextcloud views (SpecCloud)
    nc,            \* is_missing of the NCFolder record and of the NCFile record in it
    cloud,         \* the last dispatch of a Nextcloud view: what the client did, what came back
    \* ---- migration 0023 of activity_calendar (SpecMigration)
    slots,         \* the ActivitySlot rows, by id
    moments,       \* the ActivityMoment rows, in order of id
    mig,           \* how far the migration is, and the rows as they were before it
    \* ---- the redirect after a token is accepted (SpecRedirect)
    pathreq,       \* a request with a token in its URL: request.path, and the token text
                   \* the generator accepts for each row
    pathres        \* what dispatch did with it: the redirect URL, the token stored

decodeVars == <<uidb64, uid_outcome>>
tokenVars == <<now, ostate, since, session, request, response, validlink, url_object, hist,
               accepted>>
registryVars == <<modules, setting, _configs, built, raised, applicable, pc, returned>>
viewVars == <<view, call>>
cloudVars == <<nc, cloud>>
migrationVars == <<slots, moments, mig>>
redirectVars == <<pathreq, pathres>>
extVars == <<viewVars, cloudVars, migrationVars, redirectVars>>
vars == <<decodeVars, tokenVars, registryVars, extVars>>

-----------------------------------------------------------------------------
(* Bounds *)

MaxUidLen == 3      \* characters in an encoded id
MaxPk == 15         \* largest key the database column can represent
MaxTime == 2        \* clock ticks
MaxVer == 1         \* values of an object's validity-affecting fields: 0..MaxVer
MaxBindings == 2    \* names bound in one config module
MaxSlots == 2       \* ActivitySlot rows
MaxMoments == 2     \* ActivityMoment rows before the migration
MaxTokenLen == 2    \* characters of a token in a URL

RECURSIVE SeqsUpTo(_, _)
SeqsUpTo(S, n) ==
    IF n = 0 THEN { << >> }
    ELSE LET shorter == SeqsUpTo(S, n - 1)
         IN  shorter \cup { Append(s, c) : s \in {x \in shorter : Len(x) = n - 1}, c \in S }

-----------------------------------------------------------------------------
(* get_url_object: urlsafe base64 -> bytes -> text -> primary key -> row *)

\* url_object = None
NoObject == -1

\* The rows of object_class: their primary keys.
Rows == {1, 2}

\* Characters of an encoded id, as base64 values: M Q g w T I _ and, as 64, a
\* character outside the alphabet, as 65 the padding character '='.
UidAlphabet == {12, 16, 32, 48, 19, 8, 63, 64, 65}

IsB64Char(c) == c < 64

\* BASE64_PAD
Pad == 65

\* The bytes of the data characters, the spare bits of a last partial group
\* dropped.
RECURSIVE B64Bytes(_)
B64Bytes(d) ==
    IF Len(d) >= 4
    THEN << d[1] * 4 + d[2] \div 16,
            (d[2] % 16) * 16 + d[3] \div 4,
            (d[3] % 4) * 64 + d[4] >> \o B64Bytes(SubSeq(d, 5, Len(d)))
    ELSE IF Len(d) = 3
    THEN << d[1] * 4 + d[2] \div 16, (d[2] % 16) * 16 + d[3] \div 4 >>
    ELSE IF Len(d) = 2
    THEN << d[1] * 4 + d[2] \div 16 >>
    ELSE << >>

\* binascii.a2b_base64, not strict, from character i of s on, with the data
\* characters d read so far and pads padding characters since the last of
\* them: a character outside the alphabet is skipped, padding that completes
\* a group ends the input, whatever follows it.
RECURSIVE a2b_base64(_, _, _, _)
a2b_base64(s, i, d, pads) ==
    LET quad_pos == Len(d) % 4
    IN  IF i > Len(s)
        THEN IF quad_pos # 0 THEN [exc |-> "ValueError", val |-> << >>]
             ELSE [exc |-> "none", val |-> B64Bytes(d)]
        ELSE IF s[i] = Pad
        THEN IF quad_pos >= 2 /\ quad_pos + pads + 1 >= 4
             THEN [exc |-> "none", val |-> B64Bytes(d)]
             ELSE a2b_base64(s, i + 1, d, IF quad_pos >= 2 THEN pads + 1 ELSE pads)
        ELSE IF ~IsB64Char(s[i]) THEN a2b_base64(s, i + 1, d, pads)
        ELSE a2b_base64(s, i + 1, Append(d, s[i]), 0)

\* django.utils.http.urlsafe_base64_decode: pads s with len(s) % 4 '=' and
\* decodes; a binascii.Error is re-raised as ValueError.
urlsafe_base64_decode(s) ==
    a2b_base64(s \o [k \in 1..(Len(s) % 4) |-> Pad], 1, << >>, 0)

IsCont(b) == b >= 128 /\ b <= 191

\* bytes.decode(): UTF-8, strict.
RECURSIVE Utf8Decode(_)
Utf8Decode(b) ==
    IF Len(b) = 0 THEN [exc |-> "none", val |-> << >>]
    ELSE LET n == IF b[1] < 128 THEN 1
                  ELSE IF b[1] >= 194 /\ b[1] <= 223 /\ Len(b) >= 2 /\ IsCont(b[2]) THEN 2
                  ELSE IF /\ b[1] >= 224 /\ b[1] <= 239 /\ Len(b) >= 3
                          /\ IsCont(b[2]) /\ IsCont(b[3])
                          /\ (b[1] = 224 => b[2] >= 160)
                          /\ (b[1] = 237 => b[2] <= 159) THEN 3
                  ELSE 0
             cp == IF n = 1 THEN b[1]
                   ELSE IF n = 2 THEN (b[1] - 192) * 64 + (b[2] - 128)
                   ELSE IF n = 3 THEN (b[1] - 224) * 4096 + (b[2] - 128) * 64 + (b[3] - 128)
                   ELSE 0
         IN  IF n = 0 THEN [exc |-> "UnicodeDecodeError", val |-> << >>]
             ELSE LET rest == Utf8Decode(SubSeq(b, n + 1, Len(b)))
                  IN  IF rest.exc # "none" THEN rest
                      ELSE [exc |-> "none", val |-> <<cp>> \o rest.val]

IsSpace(c) == (c >= 9 /\ c <= 13) \/ (c >= 28 /\ c <= 32)
IsDigit(c) == c >= 48 /\ c <= 57

RECURSIVE Strip(_)
Strip(t) ==
    IF Len(t) = 0 THEN t
    ELSE IF IsSpace(t[1]) THEN Strip(Tail(t))
    ELSE IF IsSpace(t[Len(t)]) THEN Strip(SubSeq(t, 1, Len(t) - 1))
    ELSE t

\* digits, single underscores allowed between two digits
RECURSIVE DigitsValue(_, _)
DigitsValue(t, acc) ==
    IF Len(t) = 0 THEN acc
    ELSE IF IsDigit(t[1]) THEN DigitsValue(Tail(t), acc * 10 + (t[1] - 48))
    ELSE IF t[1] = 95 /\ Len(t) >= 2 /\ IsDigit(t[2]) THEN DigitsValue(Tail(t), acc)
    ELSE -1

\* int(text), as the integer primary key field converts the lookup value.
IntOfText(t) ==
    LET s == Strip(t)
        signed == Len(s) >= 1 /\ s[1] \in {43, 45}
        body == IF signed THEN Tail(s) ELSE s
        v == IF Len(body) >= 1 /\ IsDigit(body[1]) THEN DigitsValue(body, 0) ELSE -1
    IN  IF v < 0 THEN [exc |-> "ValueError", val |-> 0]
        ELSE [exc |-> "none", val |-> IF signed /\ s[1] = 45 THEN 0 - v ELSE v]

\* object_class._default_manager.get(pk=uid)
ManagerGet(uid) ==
    LET k == IntOfText(uid)
    IN  IF k.exc # "none" THEN [exc |-> k.exc, val |-> NoObject]
        ELSE IF k.val > MaxPk \/ k.val < 0 - MaxPk THEN [exc |-> "OverflowError", val |-> NoObject]
        ELSE IF k.val \notin Rows THEN [exc |-> "DoesNotExist", val |-> NoObject]
        ELSE [exc |-> "none", val |-> k.val]

\* The body of the try block: the first exception raised, or the row.
TryDecode(u) ==
    LET b == urlsafe_base64_decode(u)
    IN  IF b.exc # "none" THEN [exc |-> b.exc, val |-> NoObject]
        ELSE LET t == Utf8Decode(b.val)
             IN  IF t.exc # "none" THEN [exc |-> t.exc, val |-> NoObject]
                 ELSE ManagerGet(t.val)

\* Python's exception classes: the bases of each.
ExcBases(e) ==
    IF e = "UnicodeDecodeError" THEN {"UnicodeDecodeError", "ValueError", "Exception"}
    ELSE {e, "Exception"}

\* the except clause without ValueError
Caught_NoValueError == {"TypeError", "OverflowError", "DoesNotExist", "ValidationError"}
\* except (TypeError, ValueError, OverflowError, DoesNotExist, ValidationError)
Caught == {"TypeError", "ValueError", "OverflowError", "DoesNotExist", "ValidationError"}

\* get_url_object: [raised, inner, ret]: the exception that escapes, the
\* exception the try block raised, the value returned.
get_url_object(u) ==
    LET r == TryDecode(u)
    IN  IF r.exc = "none" THEN [raised |-> "none", inner |-> "none", ret |-> r.val]
        ELSE IF ExcBases(r.exc) \cap Caught # {}
        THEN [raised |-> "none", inner |-> r.exc, ret |-> NoObject]
        ELSE [raised |-> r.exc, inner |-> r.exc, ret |-> NoObject]

Uids == SeqsUpTo(UidAlphabet, MaxUidLen)

Pending == [raised |-> "pending", inner |-> "pending", ret |-> NoObject]

-----------------------------------------------------------------------------
(* ViewCollectiveConfig and ViewCollectiveRegistry *)

\* apps.get_app_configs(), in its iteration order
Apps == <<"app1", "app2">>

\* Strict subclasses of the registry's config_class that config modules
\* define: c1 keeps every default, c2 has order_value 5 and asks for a login
\* only, c3 is public and overrides is_enabled() to read a setting. A fourth
\* class, c4, is in no config module: it asks for a member record without a
\* login and is handed to views directly.
Classes == {"c1", "c2", "c3"}

\* What a name of a config module can be bound to: something that is no
\* class, the registry's config_class itself, or one of Classes.
Items == {"value", "Base"} \cup Classes

order_value(c) == IF c = "c2" THEN 5 ELSE 10
requires_login(c) == c \notin {"c3", "c4"}
requires_membership(c) == c \in {"c1", "c4"}

\* config.is_enabled()
is_enabled(c) == IF c = "c3" THEN setting ELSE TRUE

\* is_accessible that looks at the login only
is_accessible_LoginOnly(config, req) ==
    IF requires_login(config.cls) /\ ~req.is_authenticated THEN FALSE
    ELSE TRUE

\* ViewCollectiveConfig.is_accessible(request)
is_accessible(config, req) ==
    IF requires_login(config.cls) /\ ~req.is_authenticated THEN FALSE
    ELSE IF requires_membership(config.cls) /\ ~req.has_member THEN FALSE
    ELSE TRUE

Requests == [is_authenticated : BOOLEAN, has_member : BOOLEAN]

\* isinstance(cls, type)
IsType(b) == b # "value"

\* issubclass(cls, self.config_class)
IsSubclass(b) == b \in Classes \cup {"Base"}

\* import_module(f'{app.name}.{self.folder_name}.config'): the exception it
\* raises, or the module's __dict__ in definition order. "missing": the app
\* has no such submodule; "inner_missing": the submodule exists and an
\* import statement in it names a module that is not installed; "error":
\* the submodule raises anything else while it is imported.
import_module(m) ==
    IF m.kind \in {"missing", "inner_missing"}
    THEN [exc |-> "ModuleNotFoundError", dict |-> << >>]
    ELSE IF m.kind = "error"
    THEN [exc |-> "ImportError", dict |-> << >>]
    ELSE [exc |-> "none", dict |-> m.dict]

\* ViewCollectiveConfig.__init__(registry): the instance made by the
\* discovery that builds list number run, from the name at place pos of
\* the config module of the app at place app.
NewConfig(c, run, app, pos) ==
    [cls |-> c, registry |-> "registry", run |-> run, app |-> app, pos |-> pos]

\* The inner loop: for name, cls in module.__dict__.items()
RECURSIVE ScanModule(_, _, _, _)
ScanModule(d, pos, run, app) ==
    IF pos > Len(d) THEN << >>
    ELSE LET cls == d[pos]
             rest == ScanModule(d, pos + 1, run, app)
         IN  IF IsType(cls) /\ IsSubclass(cls) /\ cls # "Base" /\ is_enabled(cls)
             THEN <<NewConfig(cls, run, app, pos)>> \o rest
             ELSE rest

\* sorted(): stable, by insertion after every element whose key is not larger
RECURSIVE InsertByOrder(_, _)
InsertByOrder(x, xs) ==
    IF Len(xs) = 0 THEN <<x>>
    ELSE IF order_value(xs[1].cls) <= order_value(x.cls)
    THEN <<xs[1]>> \o InsertByOrder(x, Tail(xs))
    ELSE <<x>> \o xs

RECURSIVE SortFrom(_, _)
SortFrom(xs, done) ==
    IF Len(xs) = 0 THEN done
    ELSE SortFrom(Tail(xs), InsertByOrder(xs[1], done))

\* the list left in discovery order
sorted_Unsorted(xs) == xs

\* sorted(configs, key=lambda config: config.order_value)
sorted(xs) == SortFrom(xs, << >>)

\* except ModuleNotFoundError
CaughtOnImport == {"ModuleNotFoundError"}

\* The outer loop: for app in apps.get_app_configs()
RECURSIVE ScanApps(_, _)
ScanApps(app, run) ==
    IF app > Len(Apps) THEN [exc |-> "none", configs |-> << >>]
    ELSE LET m == import_module(modules[Apps[app]])
         IN  IF m.exc # "none" /\ m.exc \notin CaughtOnImport
             THEN [exc |-> m.exc, configs |-> << >>]
             ELSE LET rest == ScanApps(app + 1, run)
                      here == IF m.exc # "none" THEN << >>
                              ELSE ScanModule(m.dict, 1, run, app)
                  IN  IF rest.exc # "none" THEN rest
                      ELSE [exc |-> "none", configs |-> here \o rest.configs]

\* ViewCollectiveRegistry._get_configs, building list number run
_get_configs(run) ==
    LET r == ScanApps(1, run)
    IN  IF r.exc # "none" THEN r ELSE [exc |-> "none", configs |-> sorted(r.configs)]

\* registry._configs is None
NoList == [run |-> 0, items |-> << >>]

\* the loop of get_applicable_configs with the test left out
RECURSIVE get_applicable_configs_All(_, _)
get_applicable_configs_All(cs, req) ==
    IF Len(cs) = 0 THEN << >>
    ELSE <<cs[1]>> \o get_applicable_configs_All(Tail(cs), req)

\* ViewCollectiveRegistry.get_applicable_configs, over the list that
\* self.configs gave
RECURSIVE get_applicable_configs(_, _)
get_applicable_configs(cs, req) ==
    IF Len(cs) = 0 THEN << >>
    ELSE IF is_accessible(cs[1], req)
    THEN <<cs[1]>> \o get_applicable_configs(Tail(cs), req)
    ELSE get_applicable_configs(Tail(cs), req)

Threads == {"t1", "t2"}

\* A request thread that is not inside the configs property
AtIdle == [at |-> "idle", list |-> NoList]

NoCall == [list |-> NoList, request |-> [is_authenticated |-> FALSE, has_member |-> FALSE],
           result |-> << >>, called |-> FALSE]

ModuleDicts == SeqsUpTo(Items, MaxBindings)

Modules ==
    [kind : {"missing", "inner_missing", "error"}, dict : { << >> }]
    \cup [kind : {"module"}, dict : ModuleDicts]

RegistryIdle ==
    /\ modules = [a \in {Apps[i] : i \in 1..Len(Apps)} |-> [kind |-> "missing", dict |-> << >>]]
    /\ setting = TRUE
    /\ _configs = NoList
    /\ built = 0
    /\ raised = "none"
    /\ applicable = NoCall
    /\ pc = [t \in Threads |-> AtIdle]
    /\ returned = {}

\* The configs property, one thread at a time: the list it returns, the
\* exception it lets out, and what it leaves in _configs.
configs ==
    IF _configs # NoList
    THEN [exc |-> "none", list |-> _configs, ran |-> FALSE]
    ELSE LET r == _get_configs(built + 1)
         IN  IF r.exc # "none" THEN [exc |-> r.exc, list |-> NoList, ran |-> TRUE]
             ELSE [exc |-> "none", list |-> [run |-> built + 1, items |-> r.configs],
                   ran |-> TRUE]

\* registry.configs read by code such as get_urls
ReadConfigs ==
    LET r == configs
    IN  /\ raised' = r.exc
        /\ _configs' = r.list
        /\ built' = IF r.ran /\ r.exc = "none" THEN built + 1 ELSE built
        /\ returned' = IF r.exc = "none" THEN returned \cup {r.list.run} ELSE returned
        /\ applicable' = NoCall
        /\ UNCHANGED <<modules, setting, pc, decodeVars, tokenVars, extVars>>

\* registry.get_applicable_configs(request)
GetApplicableConfigs(req) ==
    LET r == configs
    IN  /\ raised' = r.exc
        /\ _configs' = r.list
        /\ built' = IF r.ran /\ r.exc = "none" THEN built + 1 ELSE built
        /\ returned' = IF r.exc = "none" THEN returned \cup {r.list.run} ELSE returned
        /\ applicable' = IF r.exc # "none" THEN NoCall
                         ELSE [list |-> r.list, request |-> req,
                               result |-> get_applicable_configs(r.list.items, req),
                               called |-> TRUE]
        /\ UNCHANGED <<modules, setting, pc, decodeVars, tokenVars, extVars>>

\* The deployment setting that c3.is_enabled() reads changes.
ChangeSetting ==
    /\ setting' = ~setting
    /\ UNCHANGED <<modules, _configs, built, raised, applicable, pc, returned,
                   decodeVars, tokenVars, extVars>>

-----------------------------------------------------------------------------
(* ViewCollectiveViewMixin *)

\* config = None
NoConfig == [cls |-> "None", registry |-> "None", run |-> 0, app |-> 0, pos |-> 0]

\* a config made outside discovery and handed to as_view(config=...)
StandaloneConfig == NewConfig("c4", 0, 0, 0)

NoView == [constructed |-> FALSE, config |-> NoConfig]

NoArgs == [request |-> [is_authenticated |-> FALSE, has_member |-> FALSE],
           passed |-> NoConfig, classlevel |-> NoConfig, with_namespace |-> FALSE]

NoViewCall == [op |-> "none", args |-> NoArgs, accessible |-> FALSE,
               outcome |-> "none", result |-> << >>, export_namespace |-> "None"]

ViewIdle ==
    /\ view = NoView
    /\ call = NoViewCall

\* no response object: what a function that ends without return gives
NoResponse == [kind |-> "None", status |-> 0, message |-> "none"]

NoCloudCall == [view |-> "none", fault |-> [exc |-> "none", actual_code |-> 0],
                folder_exists |-> "unasked", file_exists |-> "unasked",
                before |-> [folder |-> FALSE, file |-> FALSE],
                response |-> NoResponse, escaped |-> "none"]

CloudIdle ==
    /\ nc = [folder |-> FALSE, file |-> FALSE]
    /\ cloud = NoCloudCall

\* parent_activity is NULL, recurrence_id is NULL, parent_activitymoment is NULL
NoActivity == "None"
NoDate == 0
NoMoment == 0

NoSlot == [parent_activity |-> NoActivity, recurrence_id |-> NoDate,
           parent_activitymoment |-> NoMoment]

MigrationIdle ==
    /\ slots = [i \in 1..MaxSlots |-> NoSlot]
    /\ moments = << >>
    /\ mig = [phase |-> "none", slots |-> slots, moments |-> moments]

NoPathResult == [outcome |-> "pending", url |-> << >>, stored |-> << >>]

RedirectIdle ==
    /\ pathreq = [path |-> << >>, good |-> [o \in Rows |-> << >>]]
    /\ pathres = NoPathResult

ExtIdle == ViewIdle /\ CloudIdle /\ MigrationIdle /\ RedirectIdle

-----------------------------------------------------------------------------
(* Tokens, sessions, objects *)

Sessions == {"s1"}

\* settings.PASSWORD_RESET_TIMEOUT, in clock ticks
Timeout == 1

\* A token is the generator's keyed hash of (object, validity-affecting
\* fields, timestamp) together with the timestamp; the hash is modelled by
\* what it was computed from. Garbage is any string no generator produced
\* (a tampered token), Sentinel the string url_token_name, NoToken None.
NoToken == [kind |-> "none"]
Sentinel == [kind |-> "sentinel"]
Garbage == [kind |-> "garbage"]
MadeTokens == [kind : {"token"}, pk : Rows, ver : 0..MaxVer, ts : 0..MaxTime]

\* token_generator.make_token(obj), at the current time and field values
make_token(o) == [kind |-> "token", pk |-> o, ver |-> ostate[o], ts |-> now]

\* token_generator.check_token(obj, token)
check_token(o, t) ==
    /\ o # NoObject
    /\ t.kind = "token"
    /\ t.pk = o
    /\ t.ver = ostate[o]
    /\ now - t.ts <= Timeout

\* request.session.get(session_token_name)
SessionGet(s) == session[s]

\* Encoded ids a request carries here: "MQ" (row 1), "Mg" (row 2), "Mw" (3,
\* no such row), "_w" (not text).
UidSamples == { <<12, 16>>, <<12, 32>>, <<12, 48>>, <<63, 48>> }

\* self.get_url_object(kwargs[object_id_kwarg_name]) for those ids
UrlObjectOf == [u \in UidSamples |-> get_url_object(u)]

\* Tokens a client can put into a URL: the sentinel, a tampered string (or
\* a token made for field values the object no longer has), or a token the
\* generator made for an object while its fields had their current value.
UrlTokens ==
    {Sentinel, Garbage} \cup
    {t \in MadeTokens : t.ver = ostate[t.pk] /\ t.ts >= since[t.pk] /\ t.ts <= now}

NoRequest == [mixin |-> "none", sid |-> "none", uid |-> << >>, token |-> NoToken]

\* TokenMixinBase.dispatch(validlink, ...)
TokenMixinBase_dispatch(valid) ==
    IF ~valid THEN "fail_template" ELSE "view"

\* UrlTokenMixin.dispatch with the session write of the accepting branch left out.
UrlTokenMixin_dispatch_NoStore(s, u, t) ==
    LET g == UrlObjectOf[u]
        o == g.ret
    IN  IF g.raised # "none"
        THEN [validlink |-> FALSE, url_object |-> NoObject, response |-> "exception",
              entry |-> session[s]]
        ELSE IF o # NoObject /\ t = Sentinel /\ check_token(o, SessionGet(s))
        THEN [validlink |-> TRUE, url_object |-> o,
              response |-> TokenMixinBase_dispatch(TRUE), entry |-> session[s]]
        ELSE IF o # NoObject /\ t # Sentinel /\ check_token(o, t)
        THEN [validlink |-> FALSE, url_object |-> o, response |-> "redirect",
              entry |-> session[s]]
        ELSE [validlink |-> FALSE, url_object |-> o,
              response |-> TokenMixinBase_dispatch(FALSE), entry |-> session[s]]

\* UrlTokenMixin.dispatch showing the view at once for a real token that validates.
UrlTokenMixin_dispatch_NoRedirect(s, u, t) ==
    LET g == UrlObjectOf[u]
        o == g.ret
    IN  IF g.raised # "none"
        THEN [validlink |-> FALSE, url_object |-> NoObject, response |-> "exception",
              entry |-> session[s]]
        ELSE IF o # NoObject /\ t = Sentinel /\ check_token(o, SessionGet(s))
        THEN [validlink |-> TRUE, url_object |-> o,
              response |-> TokenMixinBase_dispatch(TRUE), entry |-> session[s]]
        ELSE IF o # NoObject /\ t # Sentinel /\ check_token(o, t)
        THEN [validlink |-> TRUE, url_object |-> o,
              response |-> TokenMixinBase_dispatch(TRUE), entry |-> t]
        ELSE [validlink |-> FALSE, url_object |-> o,
              response |-> TokenMixinBase_dispatch(FALSE), entry |-> session[s]]

\* UrlTokenMixin.dispatch dropping the stored token when the attempt fails.
UrlTokenMixin_dispatch_ClearOnFail(s, u, t) ==
    LET g == UrlObjectOf[u]
        o == g.ret
    IN  IF g.raised # "none"
        THEN [validlink |-> FALSE, url_object |-> NoObject, response |-> "exception",
              entry |-> session[s]]
        ELSE IF o # NoObject /\ t = Sentinel /\ check_token(o, SessionGet(s))
        THEN [validlink |-> TRUE, url_object |-> o,
              response |-> TokenMixinBase_dispatch(TRUE), entry |-> session[s]]
        ELSE IF o # NoObject /\ t # Sentinel /\ check_token(o, t)
        THEN [validlink |-> FALSE, url_object |-> o, response |-> "redirect", entry |-> t]
        ELSE [validlink |-> FALSE, url_object |-> o,
              response |-> TokenMixinBase_dispatch(FALSE), entry |-> NoToken]

\* UrlTokenMixin.dispatch as a function of the request: the view's
\* validlink and url_object, the response, and the session entry afterwards.
UrlTokenMixin_dispatch(s, u, t) ==
    LET g == UrlObjectOf[u]
        o == g.ret
    IN  IF g.raised # "none"
        THEN [validlink |-> FALSE, url_object |-> NoObject, response |-> "exception",
              entry |-> session[s]]
        ELSE IF o # NoObject /\ t = Sentinel /\ check_token(o, SessionGet(s))
        THEN [validlink |-> TRUE, url_object |-> o,
              response |-> TokenMixinBase_dispatch(TRUE), entry |-> session[s]]
        ELSE IF o # NoObject /\ t # Sentinel /\ check_token(o, t)
        THEN [validlink |-> FALSE, url_object |-> o, response |-> "redirect", entry |-> t]
        ELSE [validlink |-> FALSE, url_object |-> o,
              response |-> TokenMixinBase_dispatch(FALSE), entry |-> session[s]]

\* SessionTokenMixin.dispatch taking any stored token as valid.
SessionTokenMixin_dispatch_NoCheck(s, u) ==
    LET g == UrlObjectOf[u]
        o == g.ret
    IN  IF g.raised # "none"
        THEN [validlink |-> FALSE, url_object |-> NoObject, response |-> "exception",
              entry |-> session[s]]
        ELSE IF o # NoObject /\ SessionGet(s) # NoToken
        THEN [validlink |-> TRUE, url_object |-> o,
              response |-> TokenMixinBase_dispatch(TRUE), entry |-> session[s]]
        ELSE [validlink |-> FALSE, url_object |-> o,
              response |-> TokenMixinBase_dispatch(FALSE), entry |-> session[s]]

\* SessionTokenMixin.dispatch that checks the token but never sets validlink.
SessionTokenMixin_dispatch_NeverValid(s, u) ==
    LET g == UrlObjectOf[u]
        o == g.ret
    IN  IF g.raised # "none"
        THEN [validlink |-> FALSE, url_object |-> NoObject, response |-> "exception",
              entry |-> session[s]]
        ELSE [validlink |-> FALSE, url_object |-> o,
              response |-> TokenMixinBase_dispatch(FALSE), entry |-> session[s]]

\* SessionTokenMixin.dispatch
SessionTokenMixin_dispatch(s, u) ==
    LET g == UrlObjectOf[u]
        o == g.ret
    IN  IF g.raised # "none"
        THEN [validlink |-> FALSE, url_object |-> NoObject, response |-> "exception",
              entry |-> session[s]]
        ELSE IF o # NoObject /\ check_token(o, SessionGet(s))
        THEN [validlink |-> TRUE, url_object |-> o,
              response |-> TokenMixinBase_dispatch(TRUE), entry |-> session[s]]
        ELSE [validlink |-> FALSE, url_object |-> o,
              response |-> TokenMixinBase_dispatch(FALSE), entry |-> session[s]]

\* History only: session s accepted and stored a token for the object.
Accept(s, r) ==
    IF r.response = "redirect"
    THEN [hist EXCEPT ![s][r.url_object].fresh = TRUE]
    ELSE hist

Handled(s, r) ==
    /\ request' = NoRequest
    /\ response' = r.response
    /\ validlink' = r.validlink
    /\ url_object' = r.url_object
    /\ session' = [session EXCEPT ![s] = r.entry]
    /\ hist' = Accept(s, r)
    /\ accepted' = IF r.response = "redirect"
                   THEN [accepted EXCEPT ![s] = request.token]
                   ELSE accepted
    /\ UNCHANGED <<now, ostate, since, decodeVars, registryVars, extVars>>

\* A request arrives and a view instance is made for it.
Arrive(req) ==
    /\ request = NoRequest
    /\ request' = req
    /\ response' = "pending"
    /\ validlink' = FALSE
    /\ url_object' = NoObject
    /\ UNCHANGED <<now, ostate, since, session, hist, accepted, decodeVars, registryVars, extVars>>

\* A request to a view built on UrlTokenMixin: foo/<uidb64>/<token>
UrlTokenDispatch ==
    /\ request.mixin = "url"
    /\ Handled(request.sid, UrlTokenMixin_dispatch(request.sid, request.uid, request.token))

\* A request to a view built on SessionTokenMixin: foo/<uidb64>
SessionTokenDispatch ==
    /\ request.mixin = "session"
    /\ Handled(request.sid, SessionTokenMixin_dispatch(request.sid, request.uid))

\* delete_token: del request.session[session_token_name] (KeyError, and no
\* change, when there is no entry)
delete_token(s) ==
    /\ request = NoRequest
    /\ session[s] # NoToken
    /\ session' = [session EXCEPT ![s] = NoToken]
    /\ accepted' = [accepted EXCEPT ![s] = NoToken]
    /\ UNCHANGED <<now, ostate, since, request, response, validlink, url_object, hist, decodeVars, registryVars, extVars>>

\* A validity-affecting field of object o changes (a new password, a login,
\* a linked account): the generator's hash value for o changes with it.
ChangeField(o, v) ==
    /\ request = NoRequest
    /\ v # ostate[o]
    /\ ostate' = [ostate EXCEPT ![o] = v]
    /\ since' = [since EXCEPT ![o] = now]
    /\ hist' = [s \in Sessions |->
                  [hist[s] EXCEPT ![o] = [fresh |-> FALSE, changed |-> @.changed \/ @.fresh]]]
    /\ UNCHANGED <<now, session, request, response, validlink, url_object, accepted, decodeVars, registryVars, extVars>>

Tick ==
    /\ request = NoRequest
    /\ now < MaxTime
    /\ now' = now + 1
    /\ UNCHANGED <<ostate, since, session, request, response, validlink, url_object, hist, accepted, decodeVars, registryVars, extVars>>

TokenIdle ==
    /\ now = 0
    /\ ostate = [p \in Rows |-> 0]
    /\ since = [p \in Rows |-> 0]
    /\ session = [s \in Sessions |-> NoToken]
    /\ request = NoRequest
    /\ response = "none"
    /\ validlink = FALSE
    /\ url_object = NoObject
    /\ hist = [s \in Sessions |-> [p \in Rows |-> [fresh |-> FALSE, changed |-> FALSE]]]
    /\ accepted = [s \in Sessions |-> NoToken]

DecodeIdle ==
    /\ uidb64 = << >>
    /\ uid_outcome = Pending

InitToken == TokenIdle /\ DecodeIdle /\ RegistryIdle /\ ExtIdle

NextToken ==
    \/ \E s \in Sessions, u \in UidSamples, t \in UrlTokens :
          Arrive([mixin |-> "url", sid |-> s, uid |-> u, token |-> t])
    \/ \E s \in Sessions, u \in UidSamples :
          Arrive([mixin |-> "session", sid |-> s, uid |-> u, token |-> NoToken])
    \/ UrlTokenDispatch
    \/ SessionTokenDispatch
    \/ \E s \in Sessions : delete_token(s)
    \/ \E o \in Rows, v \in 0..MaxVer : ChangeField(o, v)
    \/ Tick

SpecToken == InitToken /\ [][NextToken]_vars

-----------------------------------------------------------------------------
(* Claims about the token mixins (SpecToken) *)

\* The object an encoded id stands for, by the decoding chain alone.
ResolveOf ==
    [u \in UidSamples |-> IF TryDecode(u).exc = "none" THEN TryDecode(u).val ELSE NoObject]
Resolve(u) == ResolveOf[u]

\* The step in which dispatch answers the pending request.
DispatchStep == request # NoRequest /\ request' = NoRequest

\* The pending request validates from the session only: UrlTokenMixin with
\* the sentinel token, or SessionTokenMixin.
SessionOnly ==
    \/ request.mixin = "session"
    \/ request.mixin = "url" /\ request.token = Sentinel

C4_Original ==
    [][(/\ DispatchStep
        /\ SessionOnly
        /\ Resolve(request.uid) # NoObject
        /\ hist[request.sid][Resolve(request.uid)].fresh)
       => response' = "view"
      ]_vars

\* C4 amended: ... succeeds while O's fields are unchanged, the session
\* entry still is that token (no token accepted later has replaced it and
\* delete_token has not removed it) and the token is within the generator's
\* timeout.
C4_SessionRevalidation ==
    [][(/\ DispatchStep
        /\ SessionOnly
        /\ Resolve(request.uid) # NoObject
        /\ hist[request.sid][Resolve(request.uid)].fresh
        /\ session[request.sid].kind = "token"
        /\ session[request.sid].pk = Resolve(request.uid)
        /\ now - session[request.sid].ts <= Timeout)
       => /\ response' = "view"
          /\ validlink'
          /\ url_object' = Resolve(request.uid)
          /\ session' = session
      ]_vars

C4_Witness ==
    /\ response = "view"
    /\ validlink
    /\ url_object = 2
    /\ hist["s1"][2].fresh
    /\ session["s1"].kind = "token"
    /\ now > session["s1"].ts

\* C5 as stated: if a field of O changes after a token for O was stored in
\* the session, every later session-based validation for O is rejected.
C5_Original ==
    [][(/\ DispatchStep
        /\ SessionOnly
        /\ Resolve(request.uid) # NoObject
        /\ hist[request.sid][Resolve(request.uid)].changed)
       => /\ response' = "fail_template"
          /\ ~validlink'
      ]_vars

\* C5 amended: ... every later session-based validation for O is rejected
\* while that token remains the session entry and O's fields keep a value
\* other than the one the token was made for.
C5_StaleTokenRejected ==
    [][(/\ DispatchStep
        /\ SessionOnly
        /\ Resolve(request.uid) # NoObject
        /\ hist[request.sid][Resolve(request.uid)].changed
        /\ session[request.sid].kind = "token"
        /\ session[request.sid].pk = Resolve(request.uid)
        /\ session[request.sid].ver # ostate[Resolve(request.uid)])
       => /\ response' = "fail_template"
          /\ ~validlink'
          /\ session' = session
      ]_vars

C5_Witness ==
    /\ response = "fail_template"
    /\ ~validlink
    /\ url_object = 1
    /\ hist["s1"][1].changed
    /\ session["s1"].kind = "token"
    /\ session["s1"].pk = 1
    /\ session["s1"].ver # ostate[1]

\* C6: a UrlTokenMixin dispatch ends in the failure template, a redirect or
\* the wrapped view; the view runs exactly when the object resolved, the
\* URL token is the sentinel and the session token passes check_token, and
\* then validlink is true; a real token that validates only redirects; in
\* every other case validlink stays false and the failure template is
\* rendered.
C6_ThreeOutcomes ==
    [][(DispatchStep /\ request.mixin = "url")
       => LET o == Resolve(request.uid)
              t == request.token
              viaSession == o # NoObject /\ t = Sentinel /\ check_token(o, session[request.sid])
              viaUrl == o # NoObject /\ t # Sentinel /\ check_token(o, t)
          IN  /\ response' \in {"fail_template", "redirect", "view"}
              /\ (response' = "view") = viaSession
              /\ (response' = "redirect") = viaUrl
              /\ (response' = "fail_template") = (~viaSession /\ ~viaUrl)
              /\ validlink' = viaSession
              /\ url_object' = o
      ]_vars

\* C6 witness: a tampered token for a resolved object got the failure template.
C6_Witness ==
    /\ response = "fail_template"
    /\ ~validlink
    /\ url_object = 1
    /\ session["s1"] = NoToken

\* C21: the session entry under session_token_name changes in two ways
\* only: the accepting branch of UrlTokenMixin.dispatch (a real token that
\* check_token accepts for the resolved object) overwrites it with the URL
\* token, and delete_token (outside any dispatch, nothing else of the
\* objects, the clock or the view changing) removes it. Every other
\* dispatch (id not resolved, token rejected, sentinel request valid or
\* not, any SessionTokenMixin dispatch) leaves the session as it was, so a
\* failed attempt never clears or replaces a stored token, and the entry,
\* when there is one, is the single token accepted most recently.
C21_SessionFrame ==
    [][\A s \in Sessions :
          LET StoresToken ==
                  /\ DispatchStep
                  /\ request.mixin = "url"
                  /\ request.sid = s
                  /\ request.token # Sentinel
                  /\ check_token(Resolve(request.uid), request.token)
              RemovesToken ==
                  /\ request = NoRequest
                  /\ request' = NoRequest
                  /\ session[s] # NoToken
                  /\ session'[s] = NoToken
                  /\ UNCHANGED <<now, ostate, since, response, validlink, url_object, hist>>
          IN  /\ StoresToken => session'[s] = request.token
              /\ (DispatchStep /\ ~StoresToken) => session'[s] = session[s]
              /\ session'[s] # session[s] => (StoresToken \/ RemovesToken)
              /\ session'[s] = accepted'[s]
              /\ session'[s] \in {NoToken} \cup MadeTokens
      ]_vars

\* C21 witness: a request whose id did not resolve was refused while the
\* session held an accepted token, and the token is still there.
C21_Witness ==
    /\ request = NoRequest
    /\ response = "fail_template"
    /\ url_object = NoObject
    /\ session["s1"].kind = "token"
    /\ accepted["s1"] = session["s1"]

InitDecode ==
    /\ uidb64 \in Uids
    /\ uid_outcome = Pending
    /\ TokenIdle
    /\ RegistryIdle
    /\ ExtIdle

GetUrlObject ==
    /\ uid_outcome = Pending
    /\ uid_outcome' = get_url_object(uidb64)
    /\ UNCHANGED <<uidb64, tokenVars, registryVars, extVars>>

NextDecode == GetUrlObject

SpecDecode == InitDecode /\ [][NextDecode]_vars

-----------------------------------------------------------------------------
\* C7: get_url_object never raises; whatever the encoded id, it returns
\* None unless the id decodes to the primary key of an existing row, and
\* then it returns that row.
C7_NeverRaises ==
    uid_outcome # Pending =>
        /\ uid_outcome.raised = "none"
        /\ (uid_outcome.inner # "none" => uid_outcome.ret = NoObject)
        /\ (uid_outcome.ret # NoObject =>
              /\ uid_outcome.ret \in Rows
              /\ TryDecode(uidb64) = [exc |-> "none", val |-> uid_outcome.ret])

\* C7 witnesses: each kind of bad id has been folded into None, and a good
\* id has resolved.
C7_Witness ==
    /\ uid_outcome.inner = "UnicodeDecodeError"
    /\ uid_outcome.raised = "none"
    /\ uid_outcome.ret = NoObject

-----------------------------------------------------------------------------
(* The registry read by one thread at a time *)

InitConfigs ==
    /\ modules \in [{Apps[i] : i \in 1..Len(Apps)} -> Modules]
    /\ setting \in BOOLEAN
    /\ _configs = NoList
    /\ built = 0
    /\ raised = "none"
    /\ applicable = NoCall
    /\ pc = [t \in Threads |-> AtIdle]
    /\ returned = {}
    /\ TokenIdle
    /\ DecodeIdle
    /\ ExtIdle

NextConfigs ==
    \/ ReadConfigs
    \/ \E req \in Requests : GetApplicableConfigs(req)
    \/ ChangeSetting

SpecConfigs == InitConfigs /\ [][NextConfigs]_vars

\* C1: get_applicable_configs(request) returns exactly the configs of
\* registry.configs whose is_accessible(request) is true, no others, each
\* once, in the relative order they have in registry.configs.
C1_ExactlyAccessibleInOrder ==
    applicable.called =>
        LET items == applicable.list.items
            res == applicable.result
            req == applicable.request
        IN  /\ applicable.list = _configs
            /\ \A i \in 1..Len(res) :
                   /\ is_accessible(res[i], req)
                   /\ \E j \in 1..Len(items) : items[j] = res[i]
            /\ \A j \in 1..Len(items) :
                   is_accessible(items[j], req) =>
                       Cardinality({i \in 1..Len(res) : res[i] = items[j]}) = 1
            /\ \A i1, i2 \in 1..Len(res) :
                   i1 < i2 =>
                       \E j1, j2 \in 1..Len(items) :
                           j1 < j2 /\ items[j1] = res[i1] /\ items[j2] = res[i2]

C1_Witness ==
    /\ applicable.called
    /\ Len(applicable.result) >= 2
    /\ Len(applicable.result) < Len(applicable.list.items)
    /\ \E j \in 1..Len(applicable.list.items) :
           ~is_accessible(applicable.list.items[j], applicable.request)

\* C2: registry.configs is in non-decreasing order of order_value, configs
\* of equal order_value stand in discovery order (app iteration order, then
\* place in the config module), so order_value 5 precedes order_value 10.
C2_SortedStable ==
    _configs # NoList =>
        \A i, j \in 1..Len(_configs.items) :
            i < j =>
                LET x == _configs.items[i]
                    y == _configs.items[j]
                IN  /\ order_value(x.cls) <= order_value(y.cls)
                    /\ order_value(x.cls) = order_value(y.cls) =>
                           \/ x.app < y.app
                           \/ x.app = y.app /\ x.pos < y.pos

C2_Witness ==
    /\ _configs # NoList
    /\ \E i, j, k \in 1..Len(_configs.items) :
           /\ i < j /\ j < k
           /\ order_value(_configs.items[i].cls) = 5
           /\ order_value(_configs.items[j].cls) = 10
           /\ order_value(_configs.items[k].cls) = 10
           /\ _configs.items[j].app < _configs.items[i].app
           /\ _configs.items[j].app < _configs.items[k].app

\* C8: an app without the config submodule is skipped and discovery goes
\* on; any other exception raised while a config submodule is imported,
\* one caused by an import inside that submodule included, leaves
\* _get_configs: no list is ever built over such an app, and discovery
\* raises only over such an app.
C8_Original ==
    /\ _configs # NoList =>
           \A i \in 1..Len(Apps) :
               modules[Apps[i]].kind \notin {"inner_missing", "error"}
    /\ raised # "none" =>
           \E i \in 1..Len(Apps) :
               modules[Apps[i]].kind \in {"inner_missing", "error"}

\* the classes that discovery finds in the config modules it imported
FoundClasses ==
    {c \in Classes :
        \E i \in 1..Len(Apps) :
            /\ modules[Apps[i]].kind = "module"
            /\ \E k \in 1..Len(modules[Apps[i]].dict) : modules[Apps[i]].dict[k] = c}

\* C9: the list that discovery builds holds exactly one instance of every
\* class found in a discovered config module that is a strict subclass of
\* config_class and enabled at discovery, no instance of config_class, no
\* disabled config, and each config's registry is this registry.
C9_Original ==
    [][(_configs = NoList /\ _configs' # NoList) =>
          /\ \A c \in FoundClasses :
                 is_enabled(c) =>
                     Cardinality({j \in 1..Len(_configs'.items) :
                                     _configs'.items[j].cls = c}) = 1
          /\ \A j \in 1..Len(_configs'.items) :
                 /\ _configs'.items[j].cls \in FoundClasses
                 /\ _configs'.items[j].cls # "Base"
                 /\ is_enabled(_configs'.items[j].cls)
                 /\ _configs'.items[j].registry = "registry"]_vars

-----------------------------------------------------------------------------
(* The configs property read by two request threads *)

\* config modules of a deployment: one app with two configs, one with the
\* setting-dependent config
SampleModules ==
    { [app1 |-> [kind |-> "module", dict |-> <<"c1", "c2">>],
       app2 |-> [kind |-> "module", dict |-> <<"c3">>]],
      [app1 |-> [kind |-> "module", dict |-> <<"Base", "c3">>],
       app2 |-> [kind |-> "missing", dict |-> << >>]],
      [app1 |-> [kind |-> "module", dict |-> <<"c2">>],
       app2 |-> [kind |-> "error", dict |-> << >>]] }

\* line 186: if self._configs is None
TestConfigs(t) ==
    /\ pc[t].at = "idle"
    /\ pc' = [pc EXCEPT ![t] = [at |-> IF _configs = NoList THEN "build" ELSE "return",
                                list |-> NoList]]
    /\ raised' = "none"
    /\ UNCHANGED <<modules, setting, _configs, built, applicable, returned,
                   decodeVars, tokenVars, extVars>>

\* line 187, right-hand side: self._get_configs()
BuildConfigs(t) ==
    /\ pc[t].at = "build"
    /\ LET r == _get_configs(built + 1)
       IN  IF r.exc # "none"
           THEN /\ raised' = r.exc
                /\ pc' = [pc EXCEPT ![t] = AtIdle]
                /\ built' = built
           ELSE /\ raised' = "none"
                /\ pc' = [pc EXCEPT ![t] = [at |-> "store",
                                            list |-> [run |-> built + 1,
                                                      items |-> r.configs]]]
                /\ built' = built + 1
    /\ UNCHANGED <<modules, setting, _configs, applicable, returned,
                   decodeVars, tokenVars, extVars>>

\* line 187, the assignment: self._configs = ...
StoreConfigs(t) ==
    /\ pc[t].at = "store"
    /\ _configs' = pc[t].list
    /\ pc' = [pc EXCEPT ![t] = [at |-> "return", list |-> NoList]]
    /\ UNCHANGED <<modules, setting, built, raised, applicable, returned,
                   decodeVars, tokenVars, extVars>>

\* line 188: return self._configs
ReturnConfigs(t) ==
    /\ pc[t].at = "return"
    /\ returned' = returned \cup {_configs.run}
    /\ pc' = [pc EXCEPT ![t] = AtIdle]
    /\ UNCHANGED <<modules, setting, _configs, built, raised, applicable,
                   decodeVars, tokenVars, extVars>>

InitThreads ==
    /\ modules \in SampleModules
    /\ setting \in BOOLEAN
    /\ _configs = NoList
    /\ built = 0
    /\ raised = "none"
    /\ applicable = NoCall
    /\ pc = [t \in Threads |-> AtIdle]
    /\ returned = {}
    /\ TokenIdle
    /\ DecodeIdle
    /\ ExtIdle

NextThreads ==
    \/ \E t \in Threads : TestConfigs(t)
    \/ \E t \in Threads : BuildConfigs(t)
    \/ \E t \in Threads : StoreConfigs(t)
    \/ \E t \in Threads : ReturnConfigs(t)
    \/ ChangeSetting

SpecThreads == InitThreads /\ [][NextThreads]_vars

\* C10: no list exists before the first access of configs, discovery runs
\* once per registry, and every access, from any thread in any interleaving,
\* returns the same list.
C10_Original ==
    /\ (\A t \in Threads : pc[t].at = "idle") /\ returned = {} /\ built = 0 =>
           _configs = NoList
    /\ built <= 1
    /\ Cardinality(returned) <= 1

-----------------------------------------------------------------------------
(* Views of a collective: construction, dispatch *)

\* the class-level config read first
ViewCollectiveViewMixin_init_ClassFirst(passed, classlevel) ==
    LET config == IF classlevel # NoConfig THEN classlevel ELSE passed
    IN  IF config = NoConfig
        THEN [outcome |-> "KeyError", view |-> NoView]
        ELSE [outcome |-> "none", view |-> [constructed |-> TRUE, config |-> config]]

\* ViewCollectiveViewMixin.__init__(config=passed) on a class whose config
\* attribute is classlevel
ViewCollectiveViewMixin_init(passed, classlevel) ==
    LET config == IF passed # NoConfig THEN passed ELSE classlevel
    IN  IF config = NoConfig
        THEN [outcome |-> "KeyError", view |-> NoView]
        ELSE [outcome |-> "none", view |-> [constructed |-> TRUE, config |-> config]]

\* dispatch that goes to the wrapped view at once
ViewCollectiveViewMixin_dispatch_NoCheck(config, req) ==
    [accessible |-> TRUE, outcome |-> "super"]

\* ViewCollectiveViewMixin.dispatch: "super" stands for the wrapped view's
\* dispatch being called
ViewCollectiveViewMixin_dispatch(config, req) ==
    IF ~is_accessible(config, req)
    THEN [accessible |-> FALSE, outcome |-> "PermissionDenied"]
    ELSE [accessible |-> TRUE, outcome |-> "super"]

\* the configs a URLconf can hand to as_view(config=...)
PassedConfigs ==
    {NoConfig, StandaloneConfig} \cup {_configs.items[j] : j \in 1..Len(_configs.items)}

\* the values of a view class's config attribute
ClassConfigs == {NoConfig, StandaloneConfig}

\* as_view()'s view function constructs the view for a request
ConstructView(passed, classlevel) ==
    LET r == ViewCollectiveViewMixin_init(passed, classlevel)
    IN  /\ view' = r.view
        /\ call' = [NoViewCall EXCEPT !.op = "init", !.outcome = r.outcome,
                                      !.args.passed = passed,
                                      !.args.classlevel = classlevel]
        /\ UNCHANGED <<decodeVars, tokenVars, registryVars, cloudVars, migrationVars, redirectVars>>

\* the constructed view is dispatched with the request
ViewDispatch(req) ==
    /\ view.constructed
    /\ LET r == ViewCollectiveViewMixin_dispatch(view.config, req)
       IN  call' = [NoViewCall EXCEPT !.op = "dispatch", !.args.request = req,
                                      !.accessible = r.accessible,
                                      !.outcome = r.outcome]
    /\ UNCHANGED <<view, decodeVars, tokenVars, registryVars, cloudVars, migrationVars, redirectVars>>

\* the namespace the registry was constructed with
RegistryNamespace == "collective"

\* class attributes of the config classes: name, icon_class, url_name,
\* url_keyword (c3 has none), namespace (c2 has none)
name(c) == <<"name", c>>
icon_class(c) == <<"icon", c>>
url_name(c) == <<"url_name", c>>
url_keyword(c) == IF c = "c3" THEN "" ELSE c
namespace(c) == IF c = "c2" THEN "None" ELSE c

\* a tab is selected when its config is of the class of the view's config
ViewCollectiveViewMixin_get_tabs_SelectByClass(config, applicable_configs) ==
    [i \in 1..Len(applicable_configs) |->
        [verbose |-> name(applicable_configs[i].cls),
         icon_class |-> icon_class(applicable_configs[i].cls),
         url |-> <<RegistryNamespace, ":", url_name(applicable_configs[i].cls)>>,
         selected |-> applicable_configs[i].cls = config.cls]]

\* the loop of ViewCollectiveViewMixin.get_tabs over applicable_configs
RECURSIVE ViewCollectiveViewMixin_get_tabs(_, _)
ViewCollectiveViewMixin_get_tabs(config, applicable_configs) ==
    IF Len(applicable_configs) = 0 THEN << >>
    ELSE LET page_config == applicable_configs[1]
         IN  << [verbose |-> name(page_config.cls),
                 icon_class |-> icon_class(page_config.cls),
                 url |-> <<RegistryNamespace, ":", url_name(page_config.cls)>>,
                 selected |-> page_config = config] >>
             \o ViewCollectiveViewMixin_get_tabs(config, Tail(applicable_configs))

\* get_context_data asks the constructed view for its tabs
GetTabs(req) ==
    /\ view.constructed
    /\ LET r == configs
       IN  /\ raised' = r.exc
           /\ _configs' = r.list
           /\ built' = IF r.ran /\ r.exc = "none" THEN built + 1 ELSE built
           /\ returned' = IF r.exc = "none" THEN returned \cup {r.list.run} ELSE returned
           /\ applicable' = IF r.exc # "none" THEN NoCall
                            ELSE [list |-> r.list, request |-> req,
                                  result |-> get_applicable_configs(r.list.items, req),
                                  called |-> TRUE]
           /\ call' = [NoViewCall EXCEPT
                          !.op = "get_tabs", !.args.request = req, !.outcome = r.exc,
                          !.result = IF r.exc # "none" THEN << >>
                                     ELSE ViewCollectiveViewMixin_get_tabs(view.config,
                                              get_applicable_configs(r.list.items, req))]
    /\ UNCHANGED <<view, modules, setting, pc, decodeVars, tokenVars, cloudVars,
                   migrationVars, redirectVars>>

\* config.get_urls() of a subclass: the routes of its section
ViewCollectiveConfig_get_urls(c) == <<[route |-> "", name |-> url_name(c)]>>

\* ViewCollectiveConfig.urls
urls(config) ==
    LET url_key == IF url_keyword(config.cls) # ""
                   THEN <<url_keyword(config.cls), "/">> ELSE << >>
    IN  [route |-> url_key,
         urlconf |-> ViewCollectiveConfig_get_urls(config.cls),
         app_name |-> namespace(config.cls),
         namespace |-> namespace(config.cls)]

\* the patterns appended at the front
ViewCollectiveRegistry_get_urls_Reversed(cs) ==
    [i \in 1..Len(cs) |-> urls(cs[Len(cs) + 1 - i])]

\* the loop of ViewCollectiveRegistry.get_urls over self.configs
RECURSIVE ViewCollectiveRegistry_get_urls(_)
ViewCollectiveRegistry_get_urls(cs) ==
    IF Len(cs) = 0 THEN << >>
    ELSE <<urls(cs[1])>> \o ViewCollectiveRegistry_get_urls(Tail(cs))

\* the URLconf calls registry.get_urls(with_namespace)
GetUrls(with_namespace) ==
    LET r == configs
        export_namespace == IF with_namespace THEN RegistryNamespace ELSE "None"
    IN  /\ raised' = r.exc
        /\ _configs' = r.list
        /\ built' = IF r.ran /\ r.exc = "none" THEN built + 1 ELSE built
        /\ returned' = IF r.exc = "none" THEN returned \cup {r.list.run} ELSE returned
        /\ applicable' = NoCall
        /\ call' = [NoViewCall EXCEPT
                       !.op = "get_urls", !.args.with_namespace = with_namespace,
                       !.outcome = r.exc,
                       !.result = IF r.exc # "none" THEN << >>
                                  ELSE ViewCollectiveRegistry_get_urls(r.list.items),
                       !.export_namespace = IF r.exc # "none" THEN "None"
                                            ELSE export_namespace]
        /\ UNCHANGED <<view, modules, setting, pc, decodeVars, tokenVars, cloudVars,
                   migrationVars, redirectVars>>

\* what the second app's config module can be in the deployments below
SecondModules ==
    { [kind |-> "missing", dict |-> << >>],
      [kind |-> "module", dict |-> <<"c2">>],
      [kind |-> "module", dict |-> <<"c1", "c3">>] }

\* config modules of a deployment: any classes in the first app's module
ViewModules ==
    { [app1 |-> [kind |-> "module", dict |-> d], app2 |-> m] :
          d \in SeqsUpTo(Classes, MaxBindings), m \in SecondModules }

InitViews ==
    /\ modules \in ViewModules
    /\ setting \in BOOLEAN
    /\ _configs = NoList
    /\ built = 0
    /\ raised = "none"
    /\ applicable = NoCall
    /\ pc = [t \in Threads |-> AtIdle]
    /\ returned = {}
    /\ TokenIdle
    /\ DecodeIdle
    /\ ViewIdle /\ CloudIdle /\ MigrationIdle /\ RedirectIdle

NextViews ==
    \/ \E with_namespace \in BOOLEAN : GetUrls(with_namespace)
    \/ \E passed \in PassedConfigs, classlevel \in ClassConfigs :
           ConstructView(passed, classlevel)
    \/ \E req \in Requests : ViewDispatch(req)
    \/ \E req \in Requests : GetTabs(req)

SpecViews == InitViews /\ [][NextViews]_vars

\* C11: dispatch evaluates config.is_accessible on the request of every
\* dispatch; when it is false PermissionDenied is raised and the wrapped
\* view's dispatch is not reached, when it is true the wrapped view is
\* dispatched.
C11_CheckedBeforeDispatch ==
    call.op = "dispatch" =>
        /\ call.accessible = is_accessible(view.config, call.args.request)
        /\ ~call.accessible => call.outcome = "PermissionDenied"
        /\ call.accessible => call.outcome = "super"

C11_Witness ==
    /\ call.op = "dispatch"
    /\ call.outcome = "PermissionDenied"
    /\ call.args.request.is_authenticated
    /\ view.config.run > 0

\* C12: the default is_accessible is true exactly when (requires_login is
\* false or the user is authenticated) and (requires_membership is false or
\* the request has a member); with the default flags a request without a
\* login and a request without a member are denied.
C12_DefaultIsAccessible ==
    call.op = "dispatch" =>
        LET c == view.config.cls
            req == call.args.request
        IN  /\ call.accessible <=>
                   /\ ~requires_login(c) \/ req.is_authenticated
                   /\ ~requires_membership(c) \/ req.has_member
            /\ requires_login(c) /\ requires_membership(c) =>
                   /\ ~req.is_authenticated => ~call.accessible
                   /\ ~req.has_member => ~call.accessible

C12_Witness ==
    /\ call.op = "dispatch"
    /\ view.config.cls = "c1"
    /\ call.args.request.is_authenticated
    /\ ~call.args.request.has_member
    /\ ~call.accessible

\* C14: constructing a view with no config, neither passed nor set on the
\* class, raises during construction, so no request is dispatched on it; a
\* config passed to the constructor overrides the class-level one.
C14_ConfigRequired ==
    /\ call.op = "init" =>
           /\ call.args.passed = NoConfig /\ call.args.classlevel = NoConfig =>
                  call.outcome = "KeyError" /\ ~view.constructed
           /\ call.args.passed # NoConfig =>
                  call.outcome = "none" /\ view.constructed
                      /\ view.config = call.args.passed
           /\ call.args.passed = NoConfig /\ call.args.classlevel # NoConfig =>
                  call.outcome = "none" /\ view.constructed
                      /\ view.config = call.args.classlevel
    /\ call.op = "dispatch" => view.constructed /\ view.config # NoConfig

C14_Witness ==
    /\ call.op = "init"
    /\ call.args.passed # NoConfig
    /\ call.args.classlevel # NoConfig
    /\ call.args.passed # call.args.classlevel
    /\ view.config = call.args.passed

\* C13: get_tabs returns one record for every config get_applicable_configs
\* returns for the request, none for an inaccessible config, in registry
\* order; a record is selected exactly when its config is the view's own
\* config, so at most one is, and exactly one when the view's config is in
\* the registry and accessible.
C13_TabsOfApplicableConfigs ==
    call.op = "get_tabs" /\ call.outcome = "none" =>
        LET tabs == call.result
            cs == applicable.result
            items == _configs.items
            req == call.args.request
            chosen == {i \in 1..Len(tabs) : tabs[i].selected}
        IN  /\ applicable.called /\ applicable.request = req
            /\ applicable.list = _configs
            /\ Len(tabs) = Len(cs)
            /\ \A i \in 1..Len(cs) :
                   /\ is_accessible(cs[i], req)
                   /\ tabs[i].verbose = name(cs[i].cls)
                   /\ tabs[i].icon_class = icon_class(cs[i].cls)
                   /\ tabs[i].url = <<RegistryNamespace, ":", url_name(cs[i].cls)>>
                   /\ tabs[i].selected <=> cs[i] = view.config
            /\ \A j \in 1..Len(items) :
                   is_accessible(items[j], req) =>
                       Cardinality({i \in 1..Len(cs) : cs[i] = items[j]}) = 1
            /\ \A i1, i2 \in 1..Len(cs) :
                   i1 < i2 =>
                       \E j1, j2 \in 1..Len(items) :
                           j1 < j2 /\ items[j1] = cs[i1] /\ items[j2] = cs[i2]
            /\ Cardinality(chosen) <= 1
            /\ (\E j \in 1..Len(items) : items[j] = view.config)
                   /\ is_accessible(view.config, req) => Cardinality(chosen) = 1

C13_Witness ==
    /\ call.op = "get_tabs" /\ call.outcome = "none"
    /\ Len(call.result) >= 2
    /\ Len(call.result) < Len(_configs.items)
    /\ \E i, k \in 1..Len(call.result) :
           /\ i # k
           /\ call.result[i].selected
           /\ call.result[i].verbose = call.result[k].verbose

\* C15: get_urls returns one entry per config of registry.configs, in
\* their order, each the config's own route list under the config's
\* namespace behind the prefix '<url_keyword>/' (none without url_keyword);
\* the namespace of the whole is the registry's, or none when
\* with_namespace is false.
C15_UrlsPerConfig ==
    call.op = "get_urls" /\ call.outcome = "none" =>
        LET items == _configs.items
        IN  /\ _configs # NoList
            /\ Len(call.result) = Len(items)
            /\ \A i \in 1..Len(items) :
                   LET c == items[i].cls
                       entry == call.result[i]
                   IN  /\ entry.urlconf = ViewCollectiveConfig_get_urls(c)
                       /\ entry.app_name = namespace(c)
                       /\ entry.namespace = namespace(c)
                       /\ entry.route = IF url_keyword(c) = "" THEN << >>
                                        ELSE <<url_keyword(c), "/">>
            /\ call.args.with_namespace => call.export_namespace = RegistryNamespace
            /\ ~call.args.with_namespace => call.export_namespace = "None"

C15_Witness ==
    /\ call.op = "get_urls" /\ call.outcome = "none"
    /\ ~call.args.with_namespace
    /\ Len(call.result) >= 3
    /\ call.result[1].route # call.result[3].route
    /\ \E i \in 1..Len(call.result) : call.result[i].route = << >>

-----------------------------------------------------------------------------
(* Nextcloud views: NextcloudConnectionViewMixin and the views built on it *)

NextcloudViews ==
    {"FileBrowserView", "FolderContentView", "FolderCreateView",
     "SynchFileToFolderView", "DownloadFileview"}

\* What a call of the remote client does while the view handles the request:
\* it returns, requests raises ConnectionError, or the WebDAV client raises
\* OperationFailed with the status code the server answered.
NoFault == [exc |-> "none", actual_code |-> 0]
ClientFaults ==
    {NoFault, [exc |-> "ConnectionError", actual_code |-> 0]}
    \cup [exc : {"OperationFailed"}, actual_code : {403, 404, 500}]

\* What client.exists(path) does: it reports, or it raises like any other
\* call of the client.
ExistsOutcomes == {"yes", "no", "ConnectionError", "OperationFailed"}

\* nextcloud_connection_failed: the failed-dependency page
nextcloud_connection_failed ==
    [kind |-> "template", status |-> 424, message |-> "none"]

\* NextcloudConnectionViewMixin.nextcloud_operation_failed
nextcloud_operation_failed == nextcloud_connection_failed

\* DownloadFileview.nextcloud_operation_failed(error), for the records'
\* is_missing flags m and the outcomes of the client.exists calls it makes
DownloadFileview_nextcloud_operation_failed(error, m, folder_exists, file_exists) ==
    LET ask_folder == error.actual_code = 404
        ask_file == ask_folder /\ folder_exists = "yes"
        redirect(msg) == [kind |-> "redirect", status |-> 302, message |-> msg]
        done(marks, asked1, asked2, msg) ==
            [nc |-> marks, response |-> redirect(msg), escaped |-> "none",
             folder_exists |-> asked1, file_exists |-> asked2]
        escape(exc, asked1, asked2) ==
            [nc |-> m, response |-> NoResponse, escaped |-> exc,
             folder_exists |-> asked1, file_exists |-> asked2]
    IN  IF ~ask_folder THEN done(m, "unasked", "unasked", "unexpected")
        ELSE IF folder_exists \in {"ConnectionError", "OperationFailed"}
        THEN escape(folder_exists, folder_exists, "unasked")
        ELSE IF folder_exists = "no"
        THEN done([m EXCEPT !.folder = TRUE], "no", "unasked", "folder_moved")
        ELSE IF file_exists \in {"ConnectionError", "OperationFailed"}
        THEN escape(file_exists, "yes", file_exists)
        ELSE IF file_exists = "no"
        THEN done([m EXCEPT !.file = TRUE], "yes", "no", "file_moved")
        ELSE done(m, "yes", "yes", "unexpected")

\* NextcloudConnectionViewMixin.dispatch around the view's own handling,
\* in which the client call ends with fault
NextcloudConnectionViewMixin_dispatch(v, fault, m, folder_exists, file_exists) ==
    LET plain(r) == [nc |-> m, response |-> r, escaped |-> "none",
                     folder_exists |-> "unasked", file_exists |-> "unasked"]
    IN  IF fault.exc = "none"
        THEN plain([kind |-> "view", status |-> 200, message |-> "none"])
        ELSE IF fault.exc = "ConnectionError"
        THEN plain(nextcloud_connection_failed)
        ELSE IF v = "DownloadFileview"
        THEN DownloadFileview_nextcloud_operation_failed(fault, m, folder_exists,
                                                         file_exists)
        ELSE plain(nextcloud_operation_failed)

\* FileBrowserView.dispatch: its own try around the mixin's dispatch
FileBrowserView_dispatch(fault, m, folder_exists, file_exists) ==
    LET r == NextcloudConnectionViewMixin_dispatch("FileBrowserView", fault, m,
                                                   folder_exists, file_exists)
    IN  IF r.escaped = "OperationFailed"
        THEN IF fault.actual_code = 404
             THEN [r EXCEPT !.escaped = "none",
                            !.response = [kind |-> "template", status |-> 200,
                                          message |-> "none"]]
             ELSE [r EXCEPT !.escaped = "none", !.response = NoResponse]
        ELSE r

\* view.dispatch(request) of a Nextcloud view
CloudDispatch(v, fault, folder_exists, file_exists) ==
    LET r == IF v = "FileBrowserView"
             THEN FileBrowserView_dispatch(fault, nc, folder_exists, file_exists)
             ELSE NextcloudConnectionViewMixin_dispatch(v, fault, nc, folder_exists,
                                                        file_exists)
    IN  /\ nc' = r.nc
        /\ cloud' = [view |-> v, fault |-> fault,
                     folder_exists |-> r.folder_exists, file_exists |-> r.file_exists,
                     before |-> nc, response |-> r.response, escaped |-> r.escaped]
        /\ UNCHANGED <<decodeVars, tokenVars, registryVars, viewVars, migrationVars, redirectVars>>

\* an administrator repairs the records after the remote was put right
ClearMissing ==
    /\ nc # [folder |-> FALSE, file |-> FALSE]
    /\ nc' = [folder |-> FALSE, file |-> FALSE]
    /\ cloud' = NoCloudCall
    /\ UNCHANGED <<decodeVars, tokenVars, registryVars, viewVars, migrationVars, redirectVars>>

InitCloud ==
    /\ TokenIdle /\ DecodeIdle /\ RegistryIdle
    /\ ViewIdle /\ CloudIdle /\ MigrationIdle /\ RedirectIdle

NextCloud ==
    \/ \E v \in NextcloudViews, fault \in ClientFaults,
          folder_exists, file_exists \in ExistsOutcomes :
           CloudDispatch(v, fault, folder_exists, file_exists)
    \/ ClearMissing

SpecCloud == InitCloud /\ [][NextCloud]_vars

\* C16: when the client raises ConnectionError or OperationFailed of any
\* code while a Nextcloud view handles a request, dispatch returns a
\* response of status 424 or a redirect with a message; it never returns
\* no response and no exception of the client leaves dispatch.
C16_Original ==
    cloud.view # "none" /\ cloud.fault.exc # "none" =>
        /\ cloud.escaped = "none"
        /\ \/ cloud.response.status = 424
           \/ cloud.response.kind = "redirect" /\ cloud.response.message # "none"

\* C17: DownloadFileview marks the folder only after a 404 and a report
\* that the folder is gone, the file only after a 404, a folder that is
\* there and a report that the file is gone, and nothing otherwise; every
\* time its handler runs the response is a redirect with an error message.
C17_Original ==
    cloud.view = "DownloadFileview" /\ cloud.fault.exc = "OperationFailed" =>
        LET gone404 == cloud.fault.actual_code = 404
        IN  /\ nc.folder # cloud.before.folder =>
                   gone404 /\ cloud.folder_exists = "no" /\ nc.file = cloud.before.file
            /\ nc.file # cloud.before.file =>
                   gone404 /\ cloud.folder_exists = "yes" /\ cloud.file_exists = "no"
            /\ gone404 /\ cloud.folder_exists = "no" => nc.folder
            /\ gone404 /\ cloud.folder_exists = "yes" /\ cloud.file_exists = "no" =>
                   nc.file
            /\ cloud.escaped = "none"
            /\ cloud.response.kind = "redirect" /\ cloud.response.message # "none"

-----------------------------------------------------------------------------
(* activity_calendar migration 0023: ActivitySlot links to an ActivityMoment *)

Activities == {"a1", "a2"}

\* Activity.start_date
start_date(a) == IF a = "a1" THEN 1 ELSE 2

\* the values of a recurrence_id
Dates == {1, 2}

MomentRows == [parent_activity : Activities, recurrence_id : Dates]

\* ActivityMoment.objects.create on every call
get_or_create_AlwaysCreate(ms, pa, rid) ==
    [exc |-> "none", is_new |-> TRUE, id |-> Len(ms) + 1,
     moments |-> Append(ms, [parent_activity |-> pa, recurrence_id |-> rid])]

\* ActivityMoment.objects.get_or_create(parent_activity=pa, recurrence_id=rid)
get_or_create(ms, pa, rid) ==
    LET row == [parent_activity |-> pa, recurrence_id |-> rid]
        hits == {k \in 1..Len(ms) : ms[k] = row}
    IN  IF hits = {}
        THEN [exc |-> "none", is_new |-> TRUE, id |-> Len(ms) + 1,
              moments |-> Append(ms, row)]
        ELSE IF Cardinality(hits) = 1
        THEN [exc |-> "none", is_new |-> FALSE, id |-> CHOOSE k \in hits : TRUE,
              moments |-> ms]
        ELSE [exc |-> "MultipleObjectsReturned", is_new |-> FALSE, id |-> NoMoment,
              moments |-> ms]

\* the loop of forwards_func from the slot with id i on
RECURSIVE forwards_func(_, _, _)
forwards_func(i, ss, ms) ==
    IF i > MaxSlots THEN [exc |-> "none", slots |-> ss, moments |-> ms]
    ELSE LET slot == ss[i]
             recurrence_id == IF slot.recurrence_id = NoDate
                              THEN start_date(slot.parent_activity)
                              ELSE slot.recurrence_id
             r == get_or_create(ms, slot.parent_activity, recurrence_id)
         IN  IF r.exc # "none" THEN [exc |-> r.exc, slots |-> ss, moments |-> ms]
             ELSE forwards_func(i + 1,
                      [ss EXCEPT ![i] = [slot EXCEPT !.recurrence_id = recurrence_id,
                                                     !.parent_activitymoment = r.id]],
                      r.moments)

\* the recurrence_id left as it is
backwards_func_NoRecurrence(ss, ms) ==
    [i \in 1..MaxSlots |->
        [ss[i] EXCEPT !.parent_activity = ms[ss[i].parent_activitymoment].parent_activity]]

\* backwards_func: every slot takes both fields from its moment
backwards_func(ss, ms) ==
    [i \in 1..MaxSlots |->
        [ss[i] EXCEPT !.parent_activity = ms[ss[i].parent_activitymoment].parent_activity,
                      !.recurrence_id = ms[ss[i].parent_activitymoment].recurrence_id]]

\* RunPython(forwards_func): in one transaction, undone when it raises
Forwards ==
    /\ mig.phase = "before"
    /\ LET r == forwards_func(1, slots, moments)
       IN  IF r.exc # "none"
           THEN /\ mig' = [mig EXCEPT !.phase = "failed"]
                /\ UNCHANGED <<slots, moments>>
           ELSE /\ mig' = [mig EXCEPT !.phase = "linked"]
                /\ slots' = r.slots
                /\ moments' = r.moments
    /\ UNCHANGED <<decodeVars, tokenVars, registryVars, viewVars, cloudVars, redirectVars>>

\* RemoveField parent_activity, RemoveField recurrence_id; undone by the
\* reverse migration, which adds both columns again, empty
RemoveFields ==
    /\ mig.phase = "linked"
    /\ slots' = [i \in 1..MaxSlots |->
                    [slots[i] EXCEPT !.parent_activity = NoActivity,
                                     !.recurrence_id = NoDate]]
    /\ mig' = [mig EXCEPT !.phase = "applied"]
    /\ UNCHANGED <<moments, decodeVars, tokenVars, registryVars, viewVars, cloudVars, redirectVars>>

\* RunPython(backwards_func) of the reverse migration
Backwards ==
    /\ mig.phase = "applied"
    /\ slots' = backwards_func(slots, moments)
    /\ mig' = [mig EXCEPT !.phase = "reverted"]
    /\ UNCHANGED <<moments, decodeVars, tokenVars, registryVars, viewVars, cloudVars, redirectVars>>

\* the tables as migration 0022 left them: every slot has a parent_activity
InitMigration ==
    /\ slots \in [1..MaxSlots ->
                    [parent_activity : Activities, recurrence_id : Dates \cup {NoDate},
                     parent_activitymoment : {NoMoment}]]
    /\ moments \in SeqsUpTo(MomentRows, MaxMoments)
    /\ mig = [phase |-> "before", slots |-> slots, moments |-> moments]
    /\ TokenIdle /\ DecodeIdle /\ RegistryIdle
    /\ ViewIdle /\ CloudIdle /\ RedirectIdle

NextMigration ==
    \/ Forwards
    \/ RemoveFields
    \/ Backwards

SpecMigration == InitMigration /\ [][NextMigration]_vars

\* the (parent_activity, recurrence_id) a slot had before the migration, with
\* the parent's start_date for a missing recurrence_id
FormerPair(i) ==
    [parent_activity |-> mig.slots[i].parent_activity,
     recurrence_id |-> IF mig.slots[i].recurrence_id = NoDate
                       THEN start_date(mig.slots[i].parent_activity)
                       ELSE mig.slots[i].recurrence_id]

\* C18: after forwards_func every slot has a moment with the slot's former
\* parent_activity and recurrence_id (the parent's start_date when it had
\* none); a moment that existed is reused, one is created only when none
\* existed, and slots with the same pair share one moment.
C18_EverySlotLinked ==
    mig.phase \in {"linked", "applied"} =>
        /\ \A i \in 1..MaxSlots :
               /\ slots[i].parent_activitymoment \in 1..Len(moments)
               /\ moments[slots[i].parent_activitymoment] = FormerPair(i)
               /\ (\E k \in 1..Len(mig.moments) : mig.moments[k] = FormerPair(i)) =>
                      slots[i].parent_activitymoment <= Len(mig.moments)
        /\ Len(moments) >= Len(mig.moments)
        /\ SubSeq(moments, 1, Len(mig.moments)) = mig.moments
        /\ \A k \in (Len(mig.moments) + 1)..Len(moments) :
               /\ \A j \in 1..Len(moments) : moments[j] = moments[k] => j = k
               /\ \E i \in 1..MaxSlots : slots[i].parent_activitymoment = k
        /\ \A i, j \in 1..MaxSlots :
               FormerPair(i) = FormerPair(j) =>
                   slots[i].parent_activitymoment = slots[j].parent_activitymoment

C18_Witness ==
    /\ mig.phase = "linked"
    /\ Len(mig.moments) >= 1
    /\ Len(moments) > Len(mig.moments)
    /\ \E i, j \in 1..MaxSlots :
           /\ i # j
           /\ mig.slots[i].recurrence_id = NoDate
           /\ mig.slots[j].recurrence_id # NoDate
           /\ slots[i].parent_activitymoment = slots[j].parent_activitymoment
           /\ slots[i].parent_activitymoment > Len(mig.moments)

\* C20: forwards_func and then backwards_func give every slot its former
\* parent_activity, its former recurrence_id when it had one and the
\* parent's start_date when it had none; the moments the forward step
\* created are still there.
C20_RoundTrip ==
    mig.phase = "reverted" =>
        /\ \A i \in 1..MaxSlots :
               /\ slots[i].parent_activity = mig.slots[i].parent_activity
               /\ mig.slots[i].recurrence_id # NoDate =>
                      slots[i].recurrence_id = mig.slots[i].recurrence_id
               /\ mig.slots[i].recurrence_id = NoDate =>
                      slots[i].recurrence_id = start_date(slots[i].parent_activity)
               /\ slots[i].parent_activitymoment \in 1..Len(moments)
               /\ moments[slots[i].parent_activitymoment] = FormerPair(i)
        /\ SubSeq(moments, 1, Len(mig.moments)) = mig.moments

C20_Witness ==
    /\ mig.phase = "reverted"
    /\ Len(moments) > Len(mig.moments)
    /\ \E i, j \in 1..MaxSlots :
           /\ mig.slots[i].recurrence_id = NoDate
           /\ mig.slots[j].recurrence_id # NoDate
           /\ slots[j].recurrence_id # start_date(slots[j].parent_activity)

-----------------------------------------------------------------------------
(* UrlTokenMixin.dispatch on the text of the URL: the redirect it issues *)

\* '/' in a path
Slash == 66

\* characters of a token, as base64 values: g w
TokenAlphabet == {32, 48}

\* the tokens a generator can make
TokenTexts == SeqsUpTo(TokenAlphabet, MaxTokenLen) \ { << >> }

\* url_token_name of the view: "TI"
url_token_name == <<19, 8>>

\* the route of the view is 'I/<uidb64>/<token>/'
RoutePrefix == <<8>>

\* the path of a URL of that route
PathOf(uid, token) ==
    <<Slash>> \o RoutePrefix \o <<Slash>> \o uid \o <<Slash>> \o token \o <<Slash>>

\* the part of s before the first '/' at or after place i
RECURSIVE Segment(_, _)
Segment(s, i) ==
    IF i > Len(s) \/ s[i] = Slash THEN << >>
    ELSE <<s[i]>> \o Segment(s, i + 1)

\* the URL resolver on the route: the view's kwargs
resolve(path) ==
    LET head == <<Slash>> \o RoutePrefix \o <<Slash>>
        uid == Segment(path, Len(head) + 1)
        token == Segment(path, Len(head) + Len(uid) + 2)
    IN  [match |-> /\ Len(path) >= Len(head)
                   /\ SubSeq(path, 1, Len(head)) = head
                   /\ Len(uid) > 0 /\ Len(token) > 0
                   /\ path = PathOf(uid, token),
         uidb64 |-> uid, token |-> token]

\* str.replace(old, new): every occurrence of old, from the left, not
\* overlapping
RECURSIVE str_replace(_, _, _)
str_replace(s, old, new) ==
    IF Len(s) < Len(old) \/ Len(old) = 0 THEN s
    ELSE IF SubSeq(s, 1, Len(old)) = old
    THEN new \o str_replace(SubSeq(s, Len(old) + 1, Len(s)), old, new)
    ELSE <<s[1]>> \o str_replace(Tail(s), old, new)

\* token_generator.check_token(url_object, token) on the token's text
check_token_text(obj, token, good) ==
    obj # NoObject /\ good[obj] = token

\* UrlTokenMixin.dispatch for a URL that carries a token, not the sentinel
UrlTokenMixin_dispatch_path(path, good) ==
    LET kwargs == resolve(path)
        obj == get_url_object(kwargs.uidb64).ret
        token == kwargs.token
    IN  IF obj # NoObject /\ token # url_token_name /\ check_token_text(obj, token, good)
        THEN [outcome |-> "redirect",
              url |-> str_replace(path, token, url_token_name),
              stored |-> token]
        ELSE [outcome |-> "other", url |-> << >>, stored |-> << >>]

\* the encoded ids a client can put in the URL: canonical ones, one with its
\* padding written out, each with further characters after it
RedirectUids ==
    { base \o tail : base \in {<<12, 16>>, <<12, 32>>, <<12, 16, Pad, Pad>>},
                     tail \in SeqsUpTo(TokenAlphabet, MaxTokenLen) }

RedirectDispatch ==
    /\ pathres.outcome = "pending"
    /\ pathres' = UrlTokenMixin_dispatch_path(pathreq.path, pathreq.good)
    /\ UNCHANGED <<pathreq, decodeVars, tokenVars, registryVars, viewVars, cloudVars,
                   migrationVars>>

InitRedirect ==
    /\ \E uid \in RedirectUids, token \in TokenTexts, good \in [Rows -> TokenTexts] :
           pathreq = [path |-> PathOf(uid, token), good |-> good]
    /\ pathres = NoPathResult
    /\ TokenIdle /\ DecodeIdle /\ RegistryIdle
    /\ ViewIdle /\ CloudIdle /\ MigrationIdle

NextRedirect == RedirectDispatch

SpecRedirect == InitRedirect /\ [][NextRedirect]_vars

\* s has old somewhere in it
Occurs(old, s) ==
    \E i \in 1..Len(s) : i + Len(old) - 1 <= Len(s) /\ SubSeq(s, i, i + Len(old) - 1) = old

\* C19: the redirect after a token is accepted is the request's path with
\* only the token segment replaced by url_token_name: the encoded id and all
\* the rest are as they were, the token occurs nowhere in it, and it resolves
\* to the same view with the same object.
C19_Original ==
    pathres.outcome = "redirect" =>
        LET kwargs == resolve(pathreq.path)
            again == resolve(pathres.url)
        IN  /\ pathres.url = PathOf(kwargs.uidb64, url_token_name)
            /\ ~Occurs(kwargs.token, pathres.url)
            /\ again.match
            /\ again.uidb64 = kwargs.uidb64
            /\ again.token = url_token_name
            /\ get_url_object(again.uidb64).ret = get_url_object(kwargs.uidb64).ret

====
